---- MODULE Spec2Model ----
(***************************************************************************)
(* Model of src/project_version.py: ProjectVersion.__init__,               *)
(* ProjectVersion._hash_file_parallel, ProjectVersion.hash and             *)
(* ProjectVersion.min_word_pairs_needed; and of src/interrupt_manager.py:  *)
(* the SIGINT handlers and the shutdown of the child processes.            *)
(*                                                                         *)
(* Text is modelled as sequences of Unicode code points, bytes as          *)
(* sequences of 0..255, a pathlib.Path as the sequence of its parts.       *)
(* hashlib's md5/sha256 are outside the repository: they are stood in for  *)
(* by a deterministic fold with digests of the real lengths (32 and 64     *)
(* hex characters).  Floating point is modelled in fixed point, with       *)
(* math.log tabulated at the sampled probabilities.                        *)
(***************************************************************************)
EXTENDS Integers, Sequences, FiniteSets, TLC

VARIABLES
    tree,            \* the directory tree under the root: relative path -> [readable, content]
    pc,              \* position of the caller in __init__ / hash
    directory_path,  \* self.directory_path
    algorithm,       \* self.algorithm
    prob,            \* accepted_collision_probability of the current call
    files,           \* hash: files
    length,          \* hash: length
    futures,         \* executor.map: one future per file, in submission order
    work_queue,      \* ThreadPoolExecutor: indices of the tasks no worker has taken yet
    workers,         \* ThreadPoolExecutor: worker -> index of the task it runs (0: idle)
    completed,       \* indices of the tasks in the order in which they finished
    file_hashes,     \* hash: file_hashes, as far as list(...) has collected it
    fed,             \* bytes fed to final_hasher so far
    version_hash,    \* hash: version_hash
    outcome,         \* how the last call ended: "none", "returned", or the exception raised
    result,          \* the value returned by hash: a sequence of tokens
    runs,            \* number of calls of hash started on this object
    returned,        \* the set of values hash has returned on this object
    calc_p,          \* min_word_pairs_needed called on its own: accepted_collision_prob
    calc_prev,       \* the call before the last one: [n, out]
    calc_last,       \* the last call: [n, out]
    fold_a,          \* the aggregation loop run on its own: a first list of (path, digest)
    fold_b,          \* a second list of (path, digest)
    fold_out,        \* the bytes the loop fed for fold_a and for fold_b
    sig_handler,     \* interrupt_manager: the handler registered for SIGINT
    children,        \* child process -> "none", "running", "stubborn", "exiting", "dead"
    stack,           \* the handler calls in progress, the innermost last
    sigints,         \* number of SIGINTs received
    exited,          \* exit status of the program, -1 while it runs
    last_print       \* the last line printed by the handlers: [msg, pid]

vars == <<tree, pc, directory_path, algorithm, prob, files, length, futures,
          work_queue, workers, completed, file_hashes, fed, version_hash,
          outcome, result, runs, returned, calc_p, calc_prev, calc_last,
          fold_a, fold_b, fold_out, sig_handler, children, stack, sigints,
          exited, last_print>>

hashVars == <<tree, pc, directory_path, algorithm, prob, files, length, futures,
              work_queue, workers, completed, file_hashes, fed, version_hash,
              outcome, result, runs, returned>>

calcVars == <<calc_p, calc_prev, calc_last>>

foldVars == <<fold_a, fold_b, fold_out>>

sigVars == <<sig_handler, children, stack, sigints, exited, last_print>>

(***************************************************************************)
(* Bounds of the model.                                                    *)
(***************************************************************************)
MaxFiles == 3        \* at most this many entries in the tree
NumWorkers == 2      \* threads of the pool
MaxRuns == 2         \* calls of hash on one object
MaxFileCount == 60   \* file_count of a direct call of min_word_pairs_needed
MaxFoldFiles == 2    \* entries of a list given to the aggregation loop on its own
NumChildren == 2     \* child processes of the program
MaxSigints == 3      \* SIGINTs sent to the program

(***************************************************************************)
(* Vocabulary sizes.                                                       *)
(***************************************************************************)
NumWords == 239
NumAdjectives == 148

(***************************************************************************)
(* Text, bytes and paths.                                                  *)
(***************************************************************************)

\* The concatenation of seqs[lo..hi], by halves.
RECURSIVE ConcatRange(_, _, _)
ConcatRange(seqs, lo, hi) ==
    IF lo > hi THEN <<>>
    ELSE IF lo = hi THEN seqs[lo]
    ELSE LET mid == (lo + hi) \div 2
         IN  ConcatRange(seqs, lo, mid) \o ConcatRange(seqs, mid + 1, hi)

\* The concatenation of a sequence of sequences.
Concat(seqs) == ConcatRange(seqs, 1, Len(seqs))

\* str.encode("utf-8") of one code point below U+0800.
Utf8Char(cp) ==
    IF cp < 128 THEN <<cp>> ELSE <<192 + (cp \div 64), 128 + (cp % 64)>>

\* str.encode("utf-8").
Utf8(text) == Concat([i \in 1..Len(text) |-> Utf8Char(text[i])])

\* Python's str < str: lexicographic on code points, a proper prefix is smaller.
RECURSIVE StrLess(_, _)
StrLess(a, b) ==
    IF b = <<>> THEN FALSE
    ELSE IF a = <<>> THEN TRUE
    ELSE IF Head(a) # Head(b) THEN Head(a) < Head(b)
    ELSE StrLess(Tail(a), Tail(b))

\* str(path): the parts joined by "/" (code point 47).
RECURSIVE PathStr(_)
PathStr(path) ==
    IF Len(path) = 0 THEN <<>>
    ELSE IF Len(path) = 1 THEN path[1]
    ELSE path[1] \o <<47>> \o PathStr(Tail(path))

\* The mutant of PathLess: the paths compared as whole strings.
PathLessByString(a, b) == StrLess(PathStr(a), PathStr(b))

\* pathlib's PurePath.__lt__: the tuples of parts compared, part by part.
RECURSIVE PartsLess(_, _)
PartsLess(a, b) ==
    IF b = <<>> THEN FALSE
    ELSE IF a = <<>> THEN TRUE
    ELSE IF Head(a) # Head(b) THEN StrLess(Head(a), Head(b))
    ELSE PartsLess(Tail(a), Tail(b))

PathLess(a, b) == PartsLess(a, b)

\* sorted(...): insertion of x into the sorted sequence s.
RECURSIVE Insert(_, _)
Insert(x, s) ==
    IF s = <<>> THEN <<x>>
    ELSE IF PathLess(x, Head(s)) THEN <<x>> \o s
    ELSE <<Head(s)>> \o Insert(x, Tail(s))

\* The mutant of SortedPaths: the files are kept in the order of the traversal.
Unsorted(s) == s

\* sorted(s)
RECURSIVE SortedPaths(_)
SortedPaths(s) ==
    IF s = <<>> THEN <<>> ELSE Insert(Head(s), SortedPaths(Tail(s)))

\* fnmatch of the name against "*.py": the name ends in ".py".
MatchesPy(name) ==
    /\ Len(name) >= 3
    /\ SubSeq(name, Len(name) - 2, Len(name)) = <<46, 112, 121>>

(***************************************************************************)
(* The directories and trees of the model.                                 *)
(***************************************************************************)
RootDir == << <<114>> >>                         \* "r", an existing directory
MissingDir == << <<109>> >>                      \* "m", does not exist
PlainFile == << <<114>>, <<110, 46, 116, 120, 116>> >>   \* "r/n.txt", not a directory

CandidatePaths ==
    { << <<97>>, <<120, 46, 112, 121>> >>,             \* a/x.py
      << <<97, 45, 98>>, <<120, 46, 112, 121>> >>,     \* a-b/x.py
      << <<233, 46, 112, 121>> >>,                     \* e-acute .py
      << <<110, 46, 116, 120, 116>> >> }               \* n.txt

FileKinds ==
    { [readable |-> TRUE, content |-> <<>>],
      [readable |-> TRUE, content |-> <<1>>],
      [readable |-> FALSE, content |-> <<>>] }

\* The trees of the model; the content of a file that does not match is
\* never read, and is left empty.
Trees ==
    { t \in UNION { [S -> FileKinds] :
                      S \in { T \in SUBSET CandidatePaths : Cardinality(T) <= MaxFiles } } :
        \A f \in DOMAIN t :
            MatchesPy(f[Len(f)]) \/ t[f] = [readable |-> TRUE, content |-> <<>>] }

\* All the orders in which a traversal can yield the members of S.
Orders(S) ==
    { s \in [1..Cardinality(S) -> S] : \A i, j \in DOMAIN s : i # j => s[i] # s[j] }

(***************************************************************************)
(* hashlib, stood in for.                                                  *)
(***************************************************************************)
HexLen(alg) == IF alg = "sha256" THEN 64 ELSE 32

\* Feeding bytes[lo..hi] takes the state x of the stand-in to
\* (mul * x + add) % 32749; each byte b takes x to (31 * x + b + 1) % 32749.
RECURSIVE HashRange(_, _, _)
HashRange(bytes, lo, hi) ==
    IF lo > hi THEN [mul |-> 1, add |-> 0]
    ELSE IF lo = hi THEN [mul |-> 31, add |-> bytes[lo] + 1]
    ELSE LET mid == (lo + hi) \div 2
             l == HashRange(bytes, lo, mid)
             r == HashRange(bytes, mid + 1, hi)
         IN  [mul |-> (l.mul * r.mul) % 32749,
              add |-> (r.mul * l.add + r.add) % 32749]

\* The state of the stand-in after bytes were fed to a hasher in state acc.
HashFold(acc, bytes) ==
    LET f == HashRange(bytes, 1, Len(bytes))
    IN  (f.mul * acc + f.add) % 32749

\* One hexadecimal digit as its character: 0-9, a-f.
HexChar(d) == IF d < 10 THEN 48 + d ELSE 87 + d

\* hasher.hexdigest() after the bytes were fed to a fresh hasher.
HexDigest(alg, bytes) ==
    LET h == HashFold(IF alg = "sha256" THEN 11 ELSE 7, bytes)
    IN  [i \in 1..HexLen(alg) |-> HexChar((((h + i * i) * (i + 2)) \div 3) % 16)]

(***************************************************************************)
(* min_word_pairs_needed.                                                  *)
(*                                                                         *)
(* A probability is the decimal m * 10^-e, written [m |-> m, e |-> e].     *)
(* required_H is held in fixed point: whole + milli / 1000.                *)
(***************************************************************************)
Probabilities ==
    { [m |-> 0 - 1, e |-> 0],    \* -1
      [m |-> 0, e |-> 0],        \* 0
      [m |-> 1, e |-> 17],       \* 1e-17
      [m |-> 1, e |-> 6],        \* 1e-6
      [m |-> 1, e |-> 3],        \* 0.001, the default
      [m |-> 1, e |-> 1],        \* 0.1
      [m |-> 39, e |-> 2],       \* 0.39
      [m |-> 4, e |-> 1],        \* 0.4
      [m |-> 5, e |-> 1],        \* 0.5
      [m |-> 999, e |-> 3],      \* 0.999
      [m |-> 1, e |-> 0],        \* 1
      [m |-> 2, e |-> 0] }       \* 2

RECURSIVE Pow10(_)
Pow10(e) == IF e = 0 THEN 1 ELSE 10 * Pow10(e - 1)

\* 0 < p
Positive(p) == p.m > 0

\* p < 1
BelowOne(p) == p.e > 9 \/ p.m < Pow10(p.e)

\* 1 - p as a double is 1.0 exactly: p is below 2^-53.
OneMinusIsOne(p) == p.m = 0 \/ (p.e >= 17 /\ p.m <= 1)

\* 1 / (-2 * math.log(1 - p)) at the sampled probabilities of (0,1), to three
\* decimals: [whole, milli].
InvNegTwoLog(p) ==
    CASE p = [m |-> 1, e |-> 6]   -> [whole |-> 499999, milli |-> 750]
      [] p = [m |-> 1, e |-> 3]   -> [whole |-> 499, milli |-> 750]
      [] p = [m |-> 1, e |-> 1]   -> [whole |-> 4, milli |-> 746]
      [] p = [m |-> 39, e |-> 2]  -> [whole |-> 1, milli |-> 12]
      [] p = [m |-> 4, e |-> 1]   -> [whole |-> 0, milli |-> 979]
      [] p = [m |-> 5, e |-> 1]   -> [whole |-> 0, milli |-> 721]
      [] p = [m |-> 999, e |-> 3] -> [whole |-> 0, milli |-> 72]

\* The mutant of RequiredH: file_count ^ 2, the exclusive or, for file_count ** 2.
RequiredHXor(file_count, p) ==
    LET inv == InvNegTwoLog(p)
        x == IF (file_count \div 2) % 2 = 1 THEN file_count - 2 ELSE file_count + 2
    IN  [whole |-> x * inv.whole + ((x * inv.milli) \div 1000),
         milli |-> (x * inv.milli) % 1000]

\* required_H = (file_count ** 2) / (-2 * math.log(1 - accepted_collision_prob))
RequiredH(file_count, p) ==
    LET inv == InvNegTwoLog(p)
        sq == file_count * file_count
    IN  [whole |-> sq * inv.whole + ((sq * inv.milli) \div 1000),
         milli |-> (sq * inv.milli) % 1000]

total_combinations == NumAdjectives * NumWords

\* The least integer not below x / total_combinations, x an integer.
CeilDivV(x) == (x + total_combinations - 1) \div total_combinations

\* The least k >= 0 with total_combinations ^ k >= x, x an integer.
RECURSIVE CeilLogInt(_)
CeilLogInt(x) == IF x <= 1 THEN 0 ELSE 1 + CeilLogInt(CeilDivV(x))

\* The mutants of CeilLog: math.floor, and at least one pair.
RECURSIVE FloorLogInt(_)
FloorLogInt(x) ==
    IF x < total_combinations THEN 0 ELSE 1 + FloorLogInt(x \div total_combinations)

FloorLog(H) == FloorLogInt(H.whole)

\* math.ceil(math.log(required_H) / math.log(total_combinations)) for
\* required_H > 1 / total_combinations: the least k >= 0 with
\* total_combinations ^ k >= required_H.
CeilLog(H) == CeilLogInt(H.whole + (IF H.milli > 0 THEN 1 ELSE 0))

\* The mutant of MinWordPairsNeeded: the check of file_count is missing
\* (math.log(0) then raises its own ValueError for file_count = 0).
MinWordPairsNeededUnchecked(file_count, p) ==
    IF ~(Positive(p) /\ BelowOne(p))
    THEN [kind |-> "ValueError: accepted_collision_prob", k |-> 0]
    ELSE IF OneMinusIsOne(p)
    THEN [kind |-> "ZeroDivisionError", k |-> 0]
    ELSE IF file_count = 0
    THEN [kind |-> "ValueError: math domain error", k |-> 0]
    ELSE [kind |-> "ok", k |-> CeilLog(RequiredH(file_count, p))]

\* min_word_pairs_needed(file_count, accepted_collision_prob): the value
\* returned, or the exception raised.
MinWordPairsNeeded(file_count, p) ==
    IF file_count < 1
    THEN [kind |-> "ValueError: file_count", k |-> 0]
    ELSE IF ~(Positive(p) /\ BelowOne(p))
    THEN [kind |-> "ValueError: accepted_collision_prob", k |-> 0]
    ELSE IF OneMinusIsOne(p)
    THEN [kind |-> "ZeroDivisionError", k |-> 0]
    ELSE [kind |-> "ok", k |-> CeilLog(RequiredH(file_count, p))]

NoCall == [n |-> 0, out |-> [kind |-> "none", k |-> 0]]

CalcInit ==
    /\ calc_p \in Probabilities
    /\ calc_prev = NoCall
    /\ calc_last = NoCall

\* One direct call of min_word_pairs_needed(n, calc_p).
CalcCall ==
    \E n \in (0 - 1)..MaxFileCount :
        /\ calc_prev' = calc_last
        /\ calc_last' = [n |-> n, out |-> MinWordPairsNeeded(n, calc_p)]
        /\ UNCHANGED calc_p

(***************************************************************************)
(* ProjectVersion.__init__ and ProjectVersion.hash.                        *)
(***************************************************************************)
None == [present |-> FALSE, hex |-> <<>>]
Some(hex) == [present |-> TRUE, hex |-> hex]

\* The arguments tried for accepted_collision_probability.
HashProbabilities ==
    { [m |-> 0, e |-> 0], [m |-> 1, e |-> 17], [m |-> 1, e |-> 6],
      [m |-> 1, e |-> 3], [m |-> 5, e |-> 1], [m |-> 1, e |-> 0] }

\* str.lower() of the algorithm names tried.
Lower(name) ==
    CASE name = "SHA256" -> "sha256"
      [] name = "MD5" -> "md5"
      [] OTHER -> name

\* The mutant of IsDirectory: the directory is not checked.
IsDirectoryUnchecked(path) == TRUE

\* Path.exists() and Path.is_dir().
IsDirectory(path) == path = RootDir

\* The tree entry a path under the root names.
Entry(file_path) ==
    tree[SubSeq(file_path, Len(directory_path) + 1, Len(file_path))]

\* The mutant of hash_file_parallel: the exception of open() is not caught.
hash_file_parallel_uncaught(file_path) ==
    IF Entry(file_path).readable
    THEN [raised |-> FALSE, value |-> Some(HexDigest(algorithm, Entry(file_path).content))]
    ELSE [raised |-> TRUE, value |-> None]

\* _hash_file_parallel(file_path): the hex digest of the content, None when
\* opening or reading fails.
hash_file_parallel(file_path) ==
    IF Entry(file_path).readable
    THEN [raised |-> FALSE, value |-> Some(HexDigest(algorithm, Entry(file_path).content))]
    ELSE [raised |-> FALSE, value |-> None]

\* The mutant of Matching: only the files that can be read are enumerated.
MatchingReadable ==
    { directory_path \o rel :
        rel \in { r \in DOMAIN tree : MatchesPy(r[Len(r)]) /\ tree[r].readable } }

\* The mutant of Matching: rglob("*"), every file under the root.
MatchingAnyFile == { directory_path \o rel : rel \in DOMAIN tree }

\* The files rglob("*.py") matches under the root, as full paths.
Matching ==
    { directory_path \o rel : rel \in { r \in DOMAIN tree : MatchesPy(r[Len(r)]) } }

Idle == [w \in 1..NumWorkers |-> 0]

\* The aggregation loop is not run on its own.
FoldOff == fold_a = <<>> /\ fold_b = <<>> /\ fold_out = <<>>

\* No signal handler is registered and the program has no children.
SigOff ==
    /\ sig_handler = "default"
    /\ children = <<>>
    /\ stack = <<>>
    /\ sigints = 0
    /\ exited = 0 - 1
    /\ last_print = [msg |-> "", pid |-> 0]

Init ==
    /\ tree \in Trees
    /\ pc = "new"
    /\ directory_path = <<>>
    /\ algorithm = ""
    /\ prob = [m |-> 0, e |-> 0]
    /\ files = <<>>
    /\ length = 0 - 1
    /\ futures = <<>>
    /\ work_queue = <<>>
    /\ workers = Idle
    /\ completed = <<>>
    /\ file_hashes = <<>>
    /\ fed = <<>>
    /\ version_hash = <<>>
    /\ outcome = "none"
    /\ result = <<>>
    /\ runs = 0
    /\ returned = {}
    /\ calc_p = [m |-> 0, e |-> 0]
    /\ calc_prev = NoCall
    /\ calc_last = NoCall
    /\ FoldOff
    /\ SigOff

\* __init__(directory_path, algorithm)
Construct ==
    /\ pc = "new"
    /\ \E d \in {RootDir, MissingDir, PlainFile}, a \in {"md5", "SHA256", "sha1"} :
        /\ directory_path' = d
        /\ IF ~IsDirectory(d)
           THEN /\ outcome' = "ValueError: directory"
                /\ pc' = "failed"
                /\ UNCHANGED algorithm
           ELSE /\ algorithm' = Lower(a)
                /\ IF Lower(a) \notin {"md5", "sha256"}
                   THEN outcome' = "ValueError: algorithm" /\ pc' = "failed"
                   ELSE outcome' = "none" /\ pc' = "ready"
    /\ UNCHANGED <<tree, prob, files, length, futures, work_queue, workers, completed,
                   file_hashes, fed, version_hash, result, runs, returned, calcVars, foldVars, sigVars>>

\* hash(accepted_collision_probability): files = sorted(rglob("*.py")) and the
\* check of file_count, for every order in which the traversal can yield the files.
HashEnumerate ==
    /\ pc = "ready"
    /\ runs < MaxRuns
    /\ \E p \in HashProbabilities, order \in Orders(Matching) :
        /\ prob' = p
        /\ files' = SortedPaths(order)
        /\ IF Len(order) = 0
           THEN outcome' = "ValueError: no files" /\ pc' = "ready"
           ELSE outcome' = "none" /\ pc' = "length"
    /\ runs' = runs + 1
    /\ length' = 0 - 1
    /\ futures' = <<>>
    /\ work_queue' = <<>>
    /\ completed' = <<>>
    /\ file_hashes' = <<>>
    /\ fed' = <<>>
    /\ version_hash' = <<>>
    /\ result' = <<>>
    /\ UNCHANGED <<tree, directory_path, algorithm, workers, returned, calcVars, foldVars, sigVars>>

\* hash: length = min_word_pairs_needed(file_count, p) when p > 0.
ComputeLength ==
    /\ pc = "length"
    /\ IF Positive(prob)
       THEN LET r == MinWordPairsNeeded(Len(files), prob)
            IN  IF r.kind = "ok"
                THEN length' = r.k /\ pc' = "submit" /\ UNCHANGED outcome
                ELSE outcome' = r.kind /\ pc' = "ready" /\ UNCHANGED length
       ELSE pc' = "submit" /\ UNCHANGED <<length, outcome>>
    /\ UNCHANGED <<tree, directory_path, algorithm, prob, files, futures, work_queue,
                   workers, completed, file_hashes, fed, version_hash, result, runs,
                   returned, calcVars, foldVars, sigVars>>

\* executor.map: one task per file is submitted, in the order of files.
Submit ==
    /\ pc = "submit"
    /\ futures' = [i \in 1..Len(files) |->
                      [state |-> "pending", raised |-> FALSE, value |-> None]]
    /\ work_queue' = [i \in 1..Len(files) |-> i]
    /\ pc' = "collect"
    /\ UNCHANGED <<tree, directory_path, algorithm, prob, files, length, workers,
                   completed, file_hashes, fed, version_hash, outcome, result, runs,
                   returned, calcVars, foldVars, sigVars>>

\* A free worker takes the oldest task of the queue.
WorkerTake(w) ==
    /\ workers[w] = 0
    /\ work_queue # <<>>
    /\ workers' = [workers EXCEPT ![w] = Head(work_queue)]
    /\ futures' = [futures EXCEPT ![Head(work_queue)].state = "running"]
    /\ work_queue' = Tail(work_queue)
    /\ UNCHANGED <<tree, pc, directory_path, algorithm, prob, files, length, completed,
                   file_hashes, fed, version_hash, outcome, result, runs, returned,
                   calcVars, foldVars, sigVars>>

\* A worker finishes its task: the future gets what _hash_file_parallel gave.
WorkerFinish(w) ==
    /\ workers[w] # 0
    /\ LET i == workers[w]
           r == hash_file_parallel(files[i])
       IN  /\ futures' = [futures EXCEPT
                             ![i] = [state |-> "done", raised |-> r.raised, value |-> r.value]]
           /\ completed' = Append(completed, i)
    /\ workers' = [workers EXCEPT ![w] = 0]
    /\ UNCHANGED <<tree, pc, directory_path, algorithm, prob, files, length, work_queue,
                   file_hashes, fed, version_hash, outcome, result, runs, returned,
                   calcVars, foldVars, sigVars>>

\* The mutant of ResultSource: the results taken as the tasks complete.
ResultSourceAsCompleted(k) == IF k <= Len(completed) THEN completed[k] ELSE 0

\* The future whose result is element k of list(executor.map(...)); 0: none yet.
ResultSource(k) == k

\* list(executor.map(...)) takes the next result, waiting until its future is done;
\* an exception of the task is raised again here, the rest is cancelled and the
\* exit of the with block waits for the running tasks.
Collect ==
    /\ pc = "collect"
    /\ Len(file_hashes) < Len(files)
    /\ LET i == ResultSource(Len(file_hashes) + 1)
       IN  /\ i # 0
           /\ futures[i].state = "done"
           /\ IF futures[i].raised
              THEN /\ outcome' = "OSError"
                   /\ pc' = "ready"
                   /\ work_queue' = <<>>
                   /\ workers' = Idle
                   /\ UNCHANGED file_hashes
              ELSE /\ file_hashes' = Append(file_hashes, futures[i].value)
                   /\ UNCHANGED <<outcome, pc, work_queue, workers>>
    /\ UNCHANGED <<tree, directory_path, algorithm, prob, files, length, futures,
                   completed, fed, version_hash, result, runs, returned, calcVars, foldVars, sigVars>>

\* The mutant of ExitPool: the with block is left without waiting for the
\* results or for the workers.
ExitPoolNoWait ==
    /\ pc = "collect"
    /\ pc' = "aggregate"
    /\ UNCHANGED <<tree, directory_path, algorithm, prob, files, length, futures,
                   work_queue, workers, completed, file_hashes, fed, version_hash,
                   outcome, result, runs, returned, calcVars, foldVars, sigVars>>

\* The exit of the with block: shutdown(wait=True) returns when no worker runs.
ExitPool ==
    /\ pc = "collect"
    /\ Len(file_hashes) = Len(files)
    /\ workers = Idle
    /\ pc' = "aggregate"
    /\ UNCHANGED <<tree, directory_path, algorithm, prob, files, length, futures,
                   work_queue, workers, completed, file_hashes, fed, version_hash,
                   outcome, result, runs, returned, calcVars, foldVars, sigVars>>

Min(a, b) == IF a < b THEN a ELSE b

\* The mutant of Update: the digest is fed before the path.
UpdateDigestFirst(file_path, file_hash) ==
    IF file_hash.present
    THEN Utf8(file_hash.hex) \o Utf8(PathStr(file_path))
    ELSE <<>>

\* The bytes one pass of the loop feeds to final_hasher.
Update(file_path, file_hash) ==
    IF file_hash.present
    THEN Utf8(PathStr(file_path)) \o Utf8(file_hash.hex)
    ELSE <<>>

\* for file_path, file_hash in zip(files, file_hashes): ...
Aggregate ==
    /\ pc = "aggregate"
    /\ fed' = Concat([i \in 1..Min(Len(files), Len(file_hashes)) |->
                         Update(files[i], file_hashes[i])])
    /\ version_hash' = HexDigest(algorithm, fed')
    /\ pc' = "encode"
    /\ UNCHANGED <<tree, directory_path, algorithm, prob, files, length, futures,
                   work_queue, workers, completed, file_hashes, outcome, result, runs,
                   returned, calcVars, foldVars, sigVars>>

\* math.floor(math.log2(x)) for an integer x >= 1.
RECURSIVE FloorLog2(_)
FloorLog2(x) == IF x < 2 THEN 0 ELSE 1 + FloorLog2(x \div 2)

max_bits == FloorLog2(total_combinations)

\* chunk_size = math.ceil(max_bits / 4)
chunk_size == (max_bits + 3) \div 4

\* The value of one hexadecimal character.
HexVal(c) == IF c >= 97 THEN c - 87 ELSE c - 48

\* int(hex_group, 16)
RECURSIVE IntBase16(_)
IntBase16(hex_group) ==
    IF hex_group = <<>> THEN 0
    ELSE 16 * IntBase16(SubSeq(hex_group, 1, Len(hex_group) - 1))
         + HexVal(hex_group[Len(hex_group)])

\* version_hash[i: i + chunk_size].ljust(chunk_size, "0"), i counted from 0.
HexGroup(hex, i) ==
    LET slice == SubSeq(hex, i + 1, Min(i + chunk_size, Len(hex)))
    IN  slice \o [j \in 1..(chunk_size - Len(slice)) |-> 48]

\* The mutant of Word: the value of the chunk is not reduced modulo
\* total_combinations.
WordNotReduced(hex_group) ==
    LET value == IntBase16(hex_group)
    IN  [adj_index |-> value \div NumWords, word_index |-> value % NumWords]

\* The word pair of one chunk: the indices into adjectives and words_list.
Word(hex_group) ==
    LET value == IntBase16(hex_group) % total_combinations
    IN  [adj_index |-> value \div NumWords, word_index |-> value % NumWords]

\* words, after the loop over range(0, len(version_hash), chunk_size).
Words(hex) ==
    [c \in 1..((Len(hex) + chunk_size - 1) \div chunk_size) |->
        Word(HexGroup(hex, (c - 1) * chunk_size))]

\* if length > 0: words = words[:length]
Truncate(words, len) ==
    IF len > 0 THEN SubSeq(words, 1, Min(len, Len(words))) ELSE words

\* The encoding of version_hash and the return of " ".join(words); an index
\* beyond a vocabulary list raises IndexError.
Encode ==
    /\ pc = "encode"
    /\ LET words == Words(version_hash)
       IN  IF \E c \in DOMAIN words :
                 \/ words[c].adj_index >= NumAdjectives
                 \/ words[c].word_index >= NumWords
           THEN /\ outcome' = "IndexError"
                /\ UNCHANGED <<result, returned>>
           ELSE /\ outcome' = "returned"
                /\ result' = Truncate(words, length)
                /\ returned' = returned \cup {[p |-> prob, value |-> result']}
    /\ pc' = "ready"
    /\ UNCHANGED <<tree, directory_path, algorithm, prob, files, length, futures,
                   work_queue, workers, completed, file_hashes, fed, version_hash, runs,
                   calcVars, foldVars, sigVars>>

\* A second directory, "s", at another place.
OtherRoot == << <<115>> >>

\* The value hash returns for the tree t held by the directory root: the
\* files sorted, each one hashed, path and digest fed in order, the digest
\* encoded and cut to len words.
hash_under(root, t, alg, len) ==
    LET rels == { r \in DOMAIN t : MatchesPy(r[Len(r)]) }
        fs == SortedPaths(CHOOSE s \in Orders({ root \o r : r \in rels }) : TRUE)
        entry(i) == t[SubSeq(fs[i], Len(root) + 1, Len(fs[i]))]
        hs == [i \in 1..Len(fs) |->
                  IF entry(i).readable
                  THEN Some(HexDigest(alg, entry(i).content))
                  ELSE None]
        stream == Concat([i \in 1..Len(fs) |-> Update(fs[i], hs[i])])
    IN  Truncate(Words(HexDigest(alg, stream)), len)

Next ==
    \/ Construct
    \/ HashEnumerate
    \/ ComputeLength
    \/ Submit
    \/ \E w \in 1..NumWorkers : WorkerTake(w)
    \/ \E w \in 1..NumWorkers : WorkerFinish(w)
    \/ Collect
    \/ ExitPool
    \/ Aggregate
    \/ Encode

Spec == Init /\ [][Next]_vars

\* The calculator called on its own; the object of the pipeline is left alone.
InitCalc ==
    /\ CalcInit
    /\ tree = [x \in {} |-> None]
    /\ pc = "new"
    /\ directory_path = <<>>
    /\ algorithm = ""
    /\ prob = [m |-> 0, e |-> 0]
    /\ files = <<>>
    /\ length = 0 - 1
    /\ futures = <<>>
    /\ work_queue = <<>>
    /\ workers = Idle
    /\ completed = <<>>
    /\ file_hashes = <<>>
    /\ fed = <<>>
    /\ version_hash = <<>>
    /\ outcome = "none"
    /\ result = <<>>
    /\ runs = 0
    /\ returned = {}
    /\ FoldOff
    /\ SigOff

NextCalc == CalcCall /\ UNCHANGED <<hashVars, foldVars, sigVars>>

SpecCalc == InitCalc /\ [][NextCalc]_vars

(***************************************************************************)
(* The aggregation loop of hash, run on its own on two lists of entries.   *)
(***************************************************************************)

\* The object of the pipeline before its construction.
HashOff ==
    /\ tree = [x \in {} |-> None]
    /\ pc = "new"
    /\ directory_path = <<>>
    /\ algorithm = ""
    /\ prob = [m |-> 0, e |-> 0]
    /\ files = <<>>
    /\ length = 0 - 1
    /\ futures = <<>>
    /\ work_queue = <<>>
    /\ workers = Idle
    /\ completed = <<>>
    /\ file_hashes = <<>>
    /\ fed = <<>>
    /\ version_hash = <<>>
    /\ outcome = "none"
    /\ result = <<>>
    /\ runs = 0
    /\ returned = {}

\* min_word_pairs_needed is not called on its own.
CalcOff ==
    /\ calc_p = [m |-> 0, e |-> 0]
    /\ calc_prev = NoCall
    /\ calc_last = NoCall

\* The md5 hex digests of the file contents <<>> and <<1>>.
FoldDigests == { HexDigest("md5", <<>>), HexDigest("md5", <<1>>) }

\* Paths rglob can yield under the root r: a.py and b.py, and files below
\* directories whose names hold ".py", the digest d of the empty content and
\* an "r": a.py<d>r/b.py, b.py<d>r/a.py and a.py<d>r/b.py<d>r/a.py.
FoldPaths ==
    LET d == HexDigest("md5", <<>>)
        a == <<97, 46, 112, 121>>
        b == <<98, 46, 112, 121>>
        r == <<114>>
    IN  { <<r, a>>,
          <<r, b>>,
          <<r, a \o d \o r, b>>,
          <<r, b \o d \o r, a>>,
          <<r, a \o d \o r, b \o d \o r, a>> }

\* The lists of (path, hex digest) the loop can be given: the paths sorted as
\* sorted() sorts them, each with a digest of the length of md5.
FoldLists ==
    UNION { { es \in [1..n -> [path : FoldPaths, hex : FoldDigests]] :
                \A i \in 1..(n - 1) : PathLess(es[i].path, es[i + 1].path) } :
            n \in 0..MaxFoldFiles }

\* The bytes the loop of lines 152-157 feeds to final_hasher for a list.
FoldLoop(es) ==
    Concat([i \in 1..Len(es) |-> Update(es[i].path, Some(es[i].hex))])

InitFold ==
    /\ HashOff
    /\ CalcOff
    /\ SigOff
    /\ fold_a \in FoldLists
    /\ fold_b \in FoldLists
    /\ fold_out = <<>>

\* The loop is run on both lists.
Fold ==
    /\ fold_out = <<>>
    /\ fold_out' = <<FoldLoop(fold_a), FoldLoop(fold_b)>>
    /\ UNCHANGED <<fold_a, fold_b, hashVars, calcVars, sigVars>>

NextFold == Fold

SpecFold == InitFold /\ [][NextFold]_vars

(***************************************************************************)
(* interrupt_manager: the SIGINT handlers.  Python runs a handler in the   *)
(* main thread, on top of whatever it interrupts, another handler call     *)
(* included; stack holds the handler calls in progress.  A call is         *)
(* [kind, n, todo, phase]: the handler, the number of the SIGINT that      *)
(* started it, the children its loop has still to treat, and its place:    *)
(* "start" (before the loop), "loop" (at the head of the loop), "wait" (in  *)
(* child.wait) or "kill" (in the except clause of TimeoutExpired).  A      *)
(* child is "none" (not started), "running" (ends when asked to            *)
(* terminate), "stubborn" (does not), "exiting" (asked, about to end) or   *)
(* "dead".                                                                 *)
(***************************************************************************)
Top == stack[Len(stack)]

SetTop(call) == [stack EXCEPT ![Len(stack)] = call]

Pop == SubSeq(stack, 1, Len(stack) - 1)

\* No child process is alive: each one has ended or was never started.
NoChildAlive == \A c \in DOMAIN children : children[c] \in {"none", "dead"}

\* __find_child_processes(): the children that were started and have not ended.
find_child_processes ==
    SelectSeq([c \in 1..NumChildren |-> c],
              LAMBDA c : children[c] \notin {"none", "dead"})

InitInt ==
    /\ HashOff
    /\ CalcOff
    /\ FoldOff
    /\ sig_handler = "default"
    /\ children \in [1..NumChildren -> {"none", "running", "stubborn"}]
    /\ stack = <<>>
    /\ sigints = 0
    /\ exited = 0 - 1
    /\ last_print = [msg |-> "", pid |-> 0]

\* register_signal_handlers()
Register ==
    /\ exited = 0 - 1
    /\ sig_handler = "default"
    /\ sig_handler' = "graceful"
    /\ UNCHANGED <<children, stack, sigints, exited, last_print,
                   hashVars, calcVars, foldVars>>

\* The program, when no handler runs, starts a child process, which will or
\* will not end when asked to terminate.
Spawn(c) ==
    /\ exited = 0 - 1
    /\ stack = <<>>
    /\ children[c] = "none"
    /\ \E kind \in {"running", "stubborn"} : children' = [children EXCEPT ![c] = kind]
    /\ UNCHANGED <<sig_handler, stack, sigints, exited, last_print,
                   hashVars, calcVars, foldVars>>

\* A SIGINT arrives: Python calls the handler registered at this moment.
CtrlC ==
    /\ exited = 0 - 1
    /\ sig_handler # "default"
    /\ sigints < MaxSigints
    /\ sigints' = sigints + 1
    /\ stack' = Append(stack, [kind |-> sig_handler, n |-> sigints + 1,
                               todo |-> <<>>, phase |-> "start"])
    /\ UNCHANGED <<sig_handler, children, exited, last_print,
                   hashVars, calcVars, foldVars>>

\* The first lines of a handler: its message, then the list of the children.
HandlerStart ==
    /\ stack # <<>>
    /\ Top.phase = "start"
    /\ last_print' = [msg |-> IF Top.kind = "graceful"
                              THEN "Ctrl+C detected"
                              ELSE "Forcefully killing",
                      pid |-> 0]
    /\ stack' = SetTop([Top EXCEPT !.todo = find_child_processes, !.phase = "loop"])
    /\ UNCHANGED <<sig_handler, children, sigints, exited,
                   hashVars, calcVars, foldVars>>

\* graceful: child.terminate(); a child that has ended raises NoSuchProcess.
GracefulTerminate ==
    /\ stack # <<>>
    /\ Top.kind = "graceful"
    /\ Top.phase = "loop"
    /\ Top.todo # <<>>
    /\ LET c == Head(Top.todo)
       IN  IF children[c] = "dead"
           THEN /\ last_print' = [msg |-> "already terminated", pid |-> c]
                /\ stack' = SetTop([Top EXCEPT !.todo = Tail(@)])
                /\ UNCHANGED children
           ELSE /\ children' = [children EXCEPT
                                   ![c] = IF @ = "running" THEN "exiting" ELSE @]
                /\ stack' = SetTop([Top EXCEPT !.phase = "wait"])
                /\ UNCHANGED last_print
    /\ UNCHANGED <<sig_handler, sigints, exited, hashVars, calcVars, foldVars>>

\* A child that was asked to terminate ends.
ChildExit(c) ==
    /\ children[c] = "exiting"
    /\ children' = [children EXCEPT ![c] = "dead"]
    /\ UNCHANGED <<sig_handler, stack, sigints, exited, last_print,
                   hashVars, calcVars, foldVars>>

\* child.wait(timeout=5) returns: the child has ended.
WaitReturns ==
    /\ stack # <<>>
    /\ Top.phase = "wait"
    /\ children[Head(Top.todo)] = "dead"
    /\ last_print' = [msg |-> "Terminated child process", pid |-> Head(Top.todo)]
    /\ stack' = SetTop([Top EXCEPT !.todo = Tail(@), !.phase = "loop"])
    /\ UNCHANGED <<sig_handler, children, sigints, exited,
                   hashVars, calcVars, foldVars>>

\* child.wait(timeout=5) raises TimeoutExpired: the child has not ended.
WaitTimeout ==
    /\ stack # <<>>
    /\ Top.phase = "wait"
    /\ children[Head(Top.todo)] # "dead"
    /\ last_print' = [msg |-> "did not terminate gracefully", pid |-> Head(Top.todo)]
    /\ stack' = SetTop([Top EXCEPT !.phase = "kill"])
    /\ UNCHANGED <<sig_handler, children, sigints, exited,
                   hashVars, calcVars, foldVars>>

\* The handler calls left when NoSuchProcess leaves the calls above them: it
\* goes down to a call that is inside its try block, in child.wait.
RECURSIVE Unwind(_)
Unwind(calls) ==
    IF calls = <<>> THEN <<>>
    ELSE IF calls[Len(calls)].phase = "wait" THEN calls
    ELSE Unwind(SubSeq(calls, 1, Len(calls) - 1))

\* The except clause of TimeoutExpired: child.kill().  When the child has
\* ended in the meantime kill raises NoSuchProcess out of the except clause:
\* a call below that is in its try block catches it and goes on with its next
\* child; with no such call the program ends with the exception.
KillAfterTimeout ==
    /\ stack # <<>>
    /\ Top.phase = "kill"
    /\ LET c == Head(Top.todo)
           below == Unwind(Pop)
       IN  IF children[c] # "dead"
           THEN /\ children' = [children EXCEPT ![c] = "dead"]
                /\ stack' = SetTop([Top EXCEPT !.todo = Tail(@), !.phase = "loop"])
                /\ UNCHANGED <<exited, last_print>>
           ELSE IF below = <<>>
           THEN /\ exited' = 1
                /\ stack' = <<>>
                /\ UNCHANGED <<children, last_print>>
           ELSE /\ last_print' = [msg |-> "already terminated",
                                  pid |-> Head(below[Len(below)].todo)]
                /\ stack' = [below EXCEPT ![Len(below)] =
                                [@ EXCEPT !.todo = Tail(@), !.phase = "loop"]]
                /\ UNCHANGED <<children, exited>>
    /\ UNCHANGED <<sig_handler, sigints, hashVars, calcVars, foldVars>>

\* graceful=False: child.kill(); a child that has ended raises NoSuchProcess.
ForceKill ==
    /\ stack # <<>>
    /\ Top.kind = "force"
    /\ Top.phase = "loop"
    /\ Top.todo # <<>>
    /\ LET c == Head(Top.todo)
       IN  IF children[c] = "dead"
           THEN /\ last_print' = [msg |-> "already terminated", pid |-> c]
                /\ UNCHANGED children
           ELSE /\ children' = [children EXCEPT ![c] = "dead"]
                /\ last_print' = [msg |-> "Killed child process", pid |-> c]
    /\ stack' = SetTop([Top EXCEPT !.todo = Tail(@)])
    /\ UNCHANGED <<sig_handler, sigints, exited, hashVars, calcVars, foldVars>>

\* __force_kill_handler after its loop: sys.exit(1); SystemExit leaves every
\* handler call in progress.
ForceExit ==
    /\ stack # <<>>
    /\ Top.kind = "force"
    /\ Top.phase = "loop"
    /\ Top.todo = <<>>
    /\ exited' = 1
    /\ stack' = <<>>
    /\ UNCHANGED <<sig_handler, children, sigints, last_print,
                   hashVars, calcVars, foldVars>>

\* __signal_handler after its loop: the message, then the force kill handler
\* is registered, and the handler returns.
GracefulEnd ==
    /\ stack # <<>>
    /\ Top.kind = "graceful"
    /\ Top.phase = "loop"
    /\ Top.todo = <<>>
    /\ last_print' = [msg |-> "Press Ctrl+C again", pid |-> 0]
    /\ sig_handler' = "force"
    /\ stack' = Pop
    /\ UNCHANGED <<children, sigints, exited, hashVars, calcVars, foldVars>>

NextInt ==
    \/ Register
    \/ \E c \in 1..NumChildren : Spawn(c)
    \/ CtrlC
    \/ HandlerStart
    \/ GracefulTerminate
    \/ \E c \in 1..NumChildren : ChildExit(c)
    \/ WaitReturns
    \/ WaitTimeout
    \/ KillAfterTimeout
    \/ ForceKill
    \/ ForceExit
    \/ GracefulEnd

SpecInt == InitInt /\ [][NextInt]_vars

\* The trees of the runs checked for progress: three matching files, the
\* last of them of any kind.
LiveTrees ==
    { t \in Trees :
        /\ DOMAIN t = { f \in CandidatePaths : MatchesPy(f[Len(f)]) }
        /\ \A f \in DOMAIN t :
              Len(f) = 2 => t[f] = [readable |-> TRUE, content |-> <<>>] }

InitLive == Init /\ tree \in LiveTrees

\* The step of the calling thread from the aggregation loop to the encoding;
\* Aggregate is the only action that takes it, and it can be taken exactly
\* when pc = "aggregate".
AggregateStep == pc = "aggregate" /\ pc' = "encode"

\* The calling thread goes on whenever it can: taking the next result when its
\* future is done, leaving the pool, aggregating, encoding. Nothing is assumed
\* of the workers.
SpecLive ==
    /\ InitLive
    /\ [][Next]_vars
    /\ WF_vars(Collect)
    /\ WF_vars(ExitPool)
    /\ WF_pc(AggregateStep)
    /\ WF_vars(Encode)

(***************************************************************************)
(* Properties.                                                             *)
(***************************************************************************)

\* The relative paths a-b/x.py and a/x.py.
RelAB == << <<97, 45, 98>>, <<120, 46, 112, 121>> >>
RelA == << <<97>>, <<120, 46, 112, 121>> >>

\* The digest, or None, of the file at index i of files, from the tree itself.
DigestOfFile(i) ==
    IF Entry(files[i]).readable
    THEN Some(HexDigest(algorithm, Entry(files[i]).content))
    ELSE None

\* C1: the results collected from the pool are index-aligned with files: result
\* i is the digest (or None) of file i, whatever the order in which the workers
\* take and finish the tasks.
C1_IndexAligned ==
    /\ Len(file_hashes) <= Len(files)
    /\ \A i \in 1..Len(file_hashes) : file_hashes[i] = DigestOfFile(i)
    /\ pc \in {"aggregate", "encode"} => Len(file_hashes) = Len(files)

\* C1 witness: all three results are collected although the tasks finished out
\* of order, and the three results are pairwise different.
C1_Witness ==
    /\ pc = "aggregate"
    /\ Len(files) = 3
    /\ completed = <<2, 1, 3>>
    /\ Cardinality({file_hashes[i] : i \in 1..3}) = 3

\* C2: any two calls of hash on the unchanged tree with the same algorithm and
\* the same accepted_collision_probability return the same value.
C2_Deterministic ==
    \A r1, r2 \in returned : r1.p = r2.p => r1.value = r2.value

\* C2 witness: a second call has returned the value of the first one, after
\* its workers finished the tasks out of order.
C2_Witness ==
    /\ runs = 2
    /\ outcome = "returned"
    /\ Len(files) = 3
    /\ completed = <<2, 3, 1>>
    /\ Cardinality(returned) = 1
    /\ Cardinality({DigestOfFile(i) : i \in 1..3}) = 3

\* The bytes of the entries i..Len(files) of the claim's stream: path, then
\* hex digest, for the entries whose digest is present.
RECURSIVE StreamFrom(_)
StreamFrom(i) ==
    IF i > Len(files) THEN <<>>
    ELSE (IF file_hashes[i].present
          THEN Utf8(PathStr(files[i])) \o Utf8(file_hashes[i].hex)
          ELSE <<>>) \o StreamFrom(i + 1)

\* C3: the combined digest is the digest, with the configured algorithm, of
\* the bytes of path and hex digest of every file whose digest is present, in
\* the order of files, and of nothing else.
C3_CombinedStream ==
    version_hash # <<>> =>
        /\ fed = StreamFrom(1)
        /\ version_hash = HexDigest(algorithm, fed)

\* C3 witness: a digest was combined from a tree with a file whose digest is
\* absent, between two whose digests are present, one of them with a
\* non-ASCII name.
C3_Witness ==
    /\ pc = "encode"
    /\ Len(files) = 3
    /\ file_hashes[1].present
    /\ ~file_hashes[2].present
    /\ file_hashes[3].present
    /\ Len(fed) = Len(PathStr(files[1])) + Len(PathStr(files[3])) + 1
                    + 2 * HexLen(algorithm)

\* C4: a file that cannot be read gives None, every other file still gets its
\* digest, and the call does not raise once the files are handed to the pool.
C4_FailureIsolation ==
    /\ \A i \in DOMAIN futures :
          futures[i].state = "done" =>
             /\ ~futures[i].raised
             /\ futures[i].value = DigestOfFile(i)
             /\ futures[i].value.present = Entry(files[i]).readable
    /\ futures # <<>> => outcome \in {"none", "returned"}
    /\ (futures # <<>> /\ pc = "ready") =>
          outcome = "returned" /\ Len(file_hashes) = Len(files)

\* C4 witness: a call has returned although the first file could not be read;
\* the two others have their digests.
C4_Witness ==
    /\ outcome = "returned"
    /\ Len(files) = 3
    /\ ~Entry(files[1]).readable
    /\ file_hashes[1] = None
    /\ file_hashes[2].present
    /\ file_hashes[3].present

\* C5 as claimed: files is in ascending order of the whole path strings.
C5_SortedByString ==
    \A i, j \in 1..Len(files) :
        i < j => StrLess(PathStr(files[i]), PathStr(files[j]))

\* C5 as amended: files holds every matching file once, in ascending order of
\* the paths compared part by part, whatever the order of the traversal.
C5_SortedByParts ==
    runs > 0 =>
        /\ {files[i] : i \in 1..Len(files)} = Matching
        /\ Len(files) = Cardinality(Matching)
        /\ \A i, j \in 1..Len(files) : i < j => PartsLess(files[i], files[j])

\* C5 witness: a/x.py is listed before a-b/x.py, whose path string is the
\* smaller one.
C5_Witness ==
    /\ runs > 0
    /\ Len(files) = 3
    /\ files[1] = directory_path \o RelA
    /\ files[2] = directory_path \o RelAB
    /\ StrLess(PathStr(files[2]), PathStr(files[1]))

\* C6 as claimed: with a probability in (0,1) the value returned is exactly the
\* first min_word_pairs_needed(file_count, p) tokens of the encoding of the
\* combined digest; with a probability <= 0 the calculator is not called and
\* all the tokens are returned.
C6_OutputLength ==
    outcome = "returned" =>
        IF Positive(prob)
        THEN LET k == MinWordPairsNeeded(Len(files), prob).k
             IN  /\ Len(result) = k
                 /\ result = SubSeq(Words(version_hash), 1, k)
        ELSE /\ length = 0 - 1
             /\ result = Words(version_hash)

\* The sampled probabilities that are not in the open interval (0,1).
OutsideUnit ==
    { [m |-> 0 - 1, e |-> 0], [m |-> 0, e |-> 0], [m |-> 1, e |-> 0], [m |-> 2, e |-> 0] }

\* C7 as claimed: for file_count = 1 and a probability in (0,1) the calculator
\* returns a length of at least 1.
C7_AtLeastOne ==
    (calc_last.n = 1 /\ calc_p \notin OutsideUnit) =>
        /\ calc_last.out.kind = "ok"
        /\ calc_last.out.k >= 1

\* The least k >= 0 with file_count^2 / (2 * total_combinations^k) <= p, for
\* p = m / 10^e in (0,1): total_combinations^k >= file_count^2 * 10^e / (2 m).
BirthdayMin(file_count, p) ==
    LET sq == file_count * file_count
        q == Pow10(p.e) \div (2 * p.m)
        r == Pow10(p.e) % (2 * p.m)
    IN  CeilLogInt(sq * q + ((sq * r + 2 * p.m - 1) \div (2 * p.m)))

HLeqPowV(H, k) ==
    \/ k >= 3
    \/ LET pow == IF k = 0 THEN 1
                  ELSE IF k = 1 THEN total_combinations
                  ELSE total_combinations * total_combinations
       IN  H.whole < pow \/ (H.whole = pow /\ H.milli = 0)

C9_Monotone ==
    (calc_prev.out.kind = "ok" /\ calc_last.out.kind = "ok") =>
        /\ calc_prev.n <= calc_last.n => calc_prev.out.k <= calc_last.out.k
        /\ calc_last.n <= calc_prev.n => calc_last.out.k <= calc_prev.out.k

\* C9 witness: with p = 0.001, 8 files need one pair and 9 files need two.
C9_Witness ==
    /\ calc_p = [m |-> 1, e |-> 3]
    /\ calc_prev = [n |-> 8, out |-> [kind |-> "ok", k |-> 1]]
    /\ calc_last = [n |-> 9, out |-> [kind |-> "ok", k |-> 2]]

\* C10: on a constructed object, min_word_pairs_needed raises its ValueError and
\* returns no length for file_count < 1 or a probability outside (0,1); a call
\* of hash with a probability >= 1 on a tree with matching files ends with
\* that ValueError, before any length is set or any task is submitted.
C10_InvalidInputRaises ==
    /\ pc = "ready" =>
          \A n \in (0 - 1)..MaxFileCount, p \in Probabilities :
              (n < 1 \/ p \in OutsideUnit) =>
                  MinWordPairsNeeded(n, p).kind \in
                      {"ValueError: file_count", "ValueError: accepted_collision_prob"}
    /\ (pc = "ready" /\ runs > 0 /\ files # <<>>
            /\ prob \in {[m |-> 1, e |-> 0], [m |-> 2, e |-> 0]}) =>
          /\ outcome = "ValueError: accepted_collision_prob"
          /\ length = 0 - 1
          /\ futures = <<>>
          /\ result = <<>>

\* C10 witness: hash(1) on a tree with two matching files has raised the
\* ValueError of the calculator.
C10_Witness ==
    /\ pc = "ready"
    /\ runs > 0
    /\ Len(files) = 2
    /\ prob = [m |-> 1, e |-> 0]
    /\ outcome = "ValueError: accepted_collision_prob"

\* The relative path n.txt, the only one of the model that does not match.
RelTxt == << <<110, 46, 116, 120, 116>> >>

\* C11: when no file under the root matches, every call of hash, whatever the
\* probability, ends with the no-files ValueError, with nothing submitted to
\* the pool and nothing returned.
C11_EmptyTreeRaises ==
    (runs > 0 /\ DOMAIN tree \subseteq {RelTxt}) =>
        /\ pc = "ready"
        /\ outcome = "ValueError: no files"
        /\ files = <<>>
        /\ futures = <<>>
        /\ result = <<>>
        /\ returned = {}

\* C11 witness: the second call, with probability 1, on a tree that holds only
\* n.txt has raised the no-files error as the first one did.
C11_Witness ==
    /\ runs = 2
    /\ DOMAIN tree = {RelTxt}
    /\ prob = [m |-> 1, e |-> 0]
    /\ outcome = "ValueError: no files"

\* The value of the hexadecimal character c, decoded on its own.
Digit(c) == IF c \in 48..57 THEN c - 48 ELSE 10 + (c - 97)

\* The token the claim gives chunk c of hex, for chunks of four characters.
TokenOf(hex, c) ==
    LET v == (4096 * Digit(hex[4 * c - 3]) + 256 * Digit(hex[4 * c - 2])
                + 16 * Digit(hex[4 * c - 1]) + Digit(hex[4 * c]))
             % (NumAdjectives * NumWords)
    IN  [adj_index |-> v \div NumWords, word_index |-> v % NumWords]

\* C12: the digest is cut into chunks of ceil(floor(log2(A * N)) / 4) = 4
\* hexadecimal characters, the last one padded with "0" on the right; chunk c
\* gives token c, with value int(c, 16) mod (A * N), adjective value div N and
\* noun value mod N; both indices are within their lists, so no call ends
\* with an IndexError.
C12_PhoneticEncoding ==
    /\ 32768 <= NumAdjectives * NumWords
    /\ NumAdjectives * NumWords < 65536
    /\ chunk_size = 4
    /\ Words(<<49, 50, 51, 52, 102, 102>>) =
          << TokenOf(<<49, 50, 51, 52>>, 1), TokenOf(<<102, 102, 48, 48>>, 1) >>
    /\ outcome # "IndexError"
    /\ outcome = "returned" =>
          /\ Len(result) = (IF length > 0 THEN length ELSE HexLen(algorithm) \div 4)
          /\ \A c \in 1..Len(result) :
                /\ result[c] = TokenOf(version_hash, c)
                /\ result[c].adj_index \in 0..(NumAdjectives - 1)
                /\ result[c].word_index \in 0..(NumWords - 1)

\* C12 witness: all 16 tokens of a sha256 digest were returned, and the reduction
\* modulo A * N changed the value of one chunk.
C12_Witness ==
    /\ outcome = "returned"
    /\ algorithm = "sha256"
    /\ Len(result) = 16
    /\ \E c \in 1..16 :
          IntBase16(SubSeq(version_hash, 4 * c - 3, 4 * c)) >= NumAdjectives * NumWords

\* The exceptions of the fatal conditions.
Fatal ==
    { "ValueError: directory", "ValueError: algorithm", "ValueError: no files",
      "ValueError: accepted_collision_prob" }

\* C13: a bad directory, an unsupported algorithm, a tree without matching
\* files or a probability >= 1 makes the construction or the call fail, and
\* whenever one of them holds no task has been submitted, no byte has been fed
\* and no value has been returned by the call.
C13_FatalAbortsBeforeWork ==
    /\ (pc # "new" /\ directory_path # RootDir) =>
          pc = "failed" /\ outcome = "ValueError: directory"
    /\ (pc # "new" /\ directory_path = RootDir /\ algorithm \notin {"md5", "sha256"}) =>
          pc = "failed" /\ outcome = "ValueError: algorithm"
    /\ pc = "failed" => runs = 0 /\ returned = {}
    /\ (runs > 0 /\ pc \notin {"length"}
            /\ (DOMAIN tree \subseteq {RelTxt}
                \/ prob \in {[m |-> 1, e |-> 0], [m |-> 2, e |-> 0]})) =>
          outcome \in Fatal
    /\ (outcome \in Fatal \/ pc = "failed") =>
          /\ futures = <<>>
          /\ work_queue = <<>>
          /\ workers = Idle
          /\ completed = <<>>
          /\ file_hashes = <<>>
          /\ fed = <<>>
          /\ version_hash = <<>>
          /\ result = <<>>

\* C13 witness: after a first call that returned a value, a second call with
\* probability 1 has failed; nothing of it is in the pool.
C13_Witness ==
    /\ runs = 2
    /\ returned # {}
    /\ outcome = "ValueError: accepted_collision_prob"
    /\ Len(files) = 3
    /\ futures = <<>>

\* Every task of the call has completed.
AllDone ==
    /\ Len(futures) = Len(files)
    /\ \A i \in 1..Len(futures) : futures[i].state = "done"

\* The barrier: bytes are fed, and aggregation and encoding run, only when
\* every task has completed, every result is in file_hashes and no worker runs.
Barrier ==
    (pc \in {"aggregate", "encode"} \/ fed # <<>> \/ version_hash # <<>>) =>
        /\ AllDone
        /\ Len(file_hashes) = Len(files)
        /\ work_queue = <<>>
        /\ workers = Idle

\* C14: no byte is fed to the combined hasher before every hashing task has
\* completed, with a digest or with None; and once all tasks of a call have
\* completed, the call returns its value.
C14_BarrierThenReturn ==
    /\ []Barrier
    /\ (pc = "collect" /\ AllDone) ~> (pc = "ready" /\ outcome = "returned")

\* C14 witness: three tasks completed in another order than they were
\* submitted, one of them with None, and the aggregation has fed its bytes.
C14_Witness ==
    /\ pc = "encode"
    /\ completed = <<2, 1, 3>>
    /\ \E i \in 1..3 : ~file_hashes[i].present
    /\ fed # <<>>

\* The list b is the list a after the content of one file has changed.
ContentChanged(a, b) ==
    /\ Len(a) = Len(b)
    /\ \E i \in 1..Len(a) :
          /\ a[i].path = b[i].path
          /\ a[i].hex # b[i].hex
          /\ \A j \in 1..Len(a) : j # i => a[j] = b[j]

\* The list b is the list a after one file was renamed to a new path, its
\* content kept.
Renamed(a, b) ==
    /\ Len(a) = Len(b)
    /\ \E i \in 1..Len(a), j \in 1..Len(b) :
          /\ b[j].path \notin { a[k].path : k \in 1..Len(a) }
          /\ a[i].hex = b[j].hex
          /\ { a[k] : k \in (1..Len(a)) \ {i} } = { b[k] : k \in (1..Len(b)) \ {j} }

\* C15: when the content of one file changes, or one file is renamed with
\* its content kept, the bytes fed to the combined hasher change, and with
\* them the combined digest.
C15_Sensitive ==
    (/\ fold_out # <<>>
     /\ ContentChanged(fold_a, fold_b) \/ Renamed(fold_a, fold_b)) =>
        fold_out[1] # fold_out[2]

\* C16: for a directory with exactly one file, SHA-256 and p = 0.001 the value
\* has the one word pair of the formula, and it is the value the same tree
\* gives under a directory at another place.
C16_RootIndependent ==
    (/\ outcome = "returned"
     /\ algorithm = "sha256"
     /\ prob = [m |-> 1, e |-> 3]
     /\ Cardinality(DOMAIN tree) = 1
     /\ Len(files) = 1
     /\ Entry(files[1]).readable) =>
        /\ Len(result) = MinWordPairsNeeded(1, prob).k
        /\ result = hash_under(directory_path, tree, algorithm, length)
        /\ result = hash_under(OtherRoot, tree, algorithm, length)

\* C17: after the first SIGINT every later SIGINT, one that arrives during
\* the graceful shutdown included, runs the force kill handler, and when it
\* has been handled the children are dead and the program has exited with
\* status 1.
C17_LaterCtrlCForceKills ==
    /\ \A i \in DOMAIN stack : stack[i].n >= 2 => stack[i].kind = "force"
    /\ (sigints >= 2 /\ stack = <<>>) => (exited = 1 /\ NoChildAlive)

\* C18: when a child has not ended within the timeout of the graceful
\* shutdown, it is killed and so are all the children that remain.
C18_TimeoutKillsAll ==
    (/\ stack # <<>>
     /\ stack[Len(stack)].phase = "loop"
     /\ last_print.msg = "did not terminate gracefully") => NoChildAlive

\* C19: two different sorted lists of (path, hex digest), the digests of
\* the length of the algorithm, never give the same bytes.
C19_StreamDeterminesEntries ==
    (fold_out # <<>> /\ fold_a # fold_b) => fold_out[1] # fold_out[2]

\* The number of files of the tree that match "*.py".
NumMatching == Cardinality({ r \in DOMAIN tree : MatchesPy(r[Len(r)]) })

\* No matching file of the tree can be read.
AllFail == \A r \in DOMAIN tree : MatchesPy(r[Len(r)]) => ~tree[r].readable

\* C20: the files that fail to hash count as files: the no-files error is
\* raised only for a tree without matching files, the length and the outcome
\* of the call are those of the number of matching files, and when every file
\* fails the call returns the encoding of the digest of the empty input.
C20_FailuresStillCount ==
    /\ outcome = "ValueError: no files" => NumMatching = 0
    /\ (runs > 0 /\ NumMatching > 0) => Len(files) = NumMatching
    /\ (pc \in {"submit", "collect", "aggregate", "encode"} \/ outcome = "returned") =>
          length = (IF Positive(prob)
                    THEN MinWordPairsNeeded(NumMatching, prob).k
                    ELSE 0 - 1)
    /\ (runs > 0 /\ NumMatching > 0 /\ pc = "ready") =>
          outcome = (IF Positive(prob) /\ MinWordPairsNeeded(NumMatching, prob).kind # "ok"
                     THEN MinWordPairsNeeded(NumMatching, prob).kind
                     ELSE "returned")
    /\ (outcome = "returned" /\ AllFail) =>
          /\ \A i \in 1..Len(file_hashes) : ~file_hashes[i].present
          /\ fed = <<>>
          /\ version_hash = HexDigest(algorithm, <<>>)
          /\ result = Truncate(Words(HexDigest(algorithm, <<>>)), length)

\* C20 witness: a call on three files, none of which can be read, has returned
\* the two word pairs that three files need at p = 0.000001.
C20_Witness ==
    /\ outcome = "returned"
    /\ Len(files) = 3
    /\ AllFail
    /\ prob = [m |-> 1, e |-> 6]
    /\ Len(result) = 2

====
